---- MODULE Spec2Model ----
(***************************************************************************)
(* Token-balance chaincode (AssetTransferContract) together with the       *)
(* gateway client that submits its transactions (AssetTransfer,            *)
(* submitWithRetry) and the ledger they share: an endorsed transaction     *)
(* carries the version of the key it read and is committed only when that  *)
(* version is still current.                                               *)
(***************************************************************************)
EXTENDS Integers, Sequences, FiniteSets, TLC

VARIABLES world, calls, height, nCalls

vars == <<world, calls, height, nCalls>>

-----------------------------------------------------------------------------
(* Bounds of the model                                                     *)

\* number of client calls started in one behaviour
MaxCalls == 3

\* attempts of submitWithRetry (const RETRIES = 2)
RETRIES == 2

\* ledger keys (client identifiers), as character strings, in key order
KeyOrder == << <<"a">>, <<"b">> >>
Keys == {KeyOrder[i] : i \in 1..Len(KeyOrder)}

\* the two gateway identities and the organisation of each
Clients == {"c1", "c2"}
Orgs == {"org1MSP", "org2MSP"}
OrgOf(c) == IF c = "c1" THEN "org1MSP" ELSE "org2MSP"

\* amounts, required lengths and data lengths that calls pass as arguments
Amounts == {-1, 5}
RequiredLengths == {41, 51}
DataLengths == {0, 23}

\* lengths on which a transaction function is evaluated in every ledger state
CheckedLengths == {-15, 0, 7, 23, 41, 42, 50, 51}

-----------------------------------------------------------------------------
(* Strings are sequences of one-character strings.                         *)

Digits == <<"0", "1", "2", "3", "4", "5", "6", "7", "8", "9">>

DigitVal(ch) == (CHOOSE i \in 1..10 : Digits[i] = ch) - 1

RECURSIVE NatToString(_)
NatToString(n) ==
    IF n < 10 THEN <<Digits[n + 1]>>
    ELSE NatToString(n \div 10) \o <<Digits[(n % 10) + 1]>>

\* Number.prototype.toString() of an integer
toString(n) == IF n < 0 THEN <<"-">> \o NatToString(-n) ELSE NatToString(n)

RECURSIVE ParseNat(_)
ParseNat(s) ==
    IF Len(s) = 0 THEN 0
    ELSE ParseNat(SubSeq(s, 1, Len(s) - 1)) * 10 + DigitVal(s[Len(s)])
\* only the first digit is read
NumberFirstDigit(s) ==
    IF Len(s) > 0 /\ s[1] = "-" THEN 0 - ParseNat(SubSeq(s, 2, 2))
    ELSE ParseNat(SubSeq(s, 1, 1))

\* Number(bytes) of a decimal integer string
Number(s) ==
    IF Len(s) > 0 /\ s[1] = "-" THEN 0 - ParseNat(Tail(s)) ELSE ParseNat(s)

\* a data string of the given length
MkData(n) == [i \in 1..n |-> "x"]

\* Math.ceil(n / 10)
Ceil10(n) == 0 - ((0 - n) \div 10)
\* Math.floor in place of Math.ceil
evaluateObfuscationFloor(data) == Len(data) \div 10


evaluateObfuscation(data) == Ceil10(Len(data))
\* Math.floor in place of Math.ceil
evaluateDeductionFloor(requiredLength) == requiredLength \div 10


evaluateDeduction(requiredLength) == Ceil10(requiredLength)

-----------------------------------------------------------------------------
(* The chaincode.  A transaction function is evaluated against a context   *)
(* ctx = [w |-> world state, org |-> MSP id of the invoking identity] and  *)
(* yields the error it throws or the write, policy and event it stages.    *)

Absent == [val |-> <<>>, ver |-> 0, policy |-> {}]

\* ctx.stub.getState(id): empty for a key that holds no value
getState(ctx, id) == IF id \in DOMAIN ctx.w THEN ctx.w[id].val ELSE <<>>

Throw(kind, id) ==
    [err |-> kind, key |-> id, write |-> "none", val |-> <<>>,
     setsPolicy |-> FALSE, policy |-> {}, event |-> <<>>]

\* the policy names the organisation of the application, whoever invokes
newMemberPolicyOwnOrg(orgs) == {"org1MSP"}

\* newMemberPolicy(...orgs): a member of any of orgs
newMemberPolicy(orgs) == orgs

\* ctx.stub.setStateValidationParameter is rejected in this simulation
PolicyFails(ctx) == "policyFails" \in DOMAIN ctx /\ ctx.policyFails

\* no validation parameter is set
setEndorsingOrgsSkipped(ctx, eff, orgs) == eff

\* setEndorsingOrgs(ctx, ledgerKey, ...orgs) after the staged write eff of
\* ledgerKey; a rejection is thrown to the caller
setEndorsingOrgs(ctx, eff, orgs) ==
    IF PolicyFails(ctx) THEN Throw("PolicyError", eff.key)
    ELSE [eff EXCEPT !.setsPolicy = TRUE, !.policy = newMemberPolicy(orgs)]

putState(id, bytes) ==
    [err |-> "none", key |-> id, write |-> "put", val |-> bytes,
     setsPolicy |-> FALSE, policy |-> {}, event |-> <<>>]

deleteState(id) ==
    [err |-> "none", key |-> id, write |-> "del", val |-> <<>>,
     setsPolicy |-> FALSE, policy |-> {}, event |-> <<>>]

setEvent(eff, name, payload) == [eff EXCEPT !.event = <<name, payload>>]

ClientExists(ctx, id) == Len(getState(ctx, id)) > 0
\* the existence check is left out
AddClientUpsert(ctx, id, initAmount) ==
    LET put == setEndorsingOrgs(ctx, putState(id, toString(initAmount)), {ctx.org})
    IN  IF put.err # "none" THEN put
        ELSE setEvent(put, "AddClient", toString(initAmount))

\* a rejected setEndorsingOrgs is caught and the function carries on
AddClientIgnoresPolicyError(ctx, id, initAmount) ==
    IF ClientExists(ctx, id) THEN Throw("AlreadyExists", id)
    ELSE LET put == putState(id, toString(initAmount))
             pol == setEndorsingOrgs(ctx, put, {ctx.org})
         IN  setEvent(IF pol.err # "none" THEN put ELSE pol,
                      "AddClient", toString(initAmount))

AddClient(ctx, id, initAmount) ==
    IF ClientExists(ctx, id) THEN Throw("AlreadyExists", id)
    ELSE LET put == setEndorsingOrgs(ctx, putState(id, toString(initAmount)),
                                     {ctx.org})
         IN  IF put.err # "none" THEN put
             ELSE setEvent(put, "AddClient", toString(initAmount))

\* GetTokens: [err, ret]
GetTokens(ctx, id) ==
    LET assetBytes == getState(ctx, id) IN
    IF Len(assetBytes) = 0 THEN [err |-> "NotFound", ret |-> 0]
    ELSE [err |-> "none", ret |-> Number(assetBytes)]
\* the existence check is left out
PutTokensUpsert(ctx, id, newAmount) ==
    LET put == setEndorsingOrgs(ctx, putState(id, toString(newAmount)), {ctx.org})
    IN  IF put.err # "none" THEN put
        ELSE setEvent(put, "PutTokens", toString(newAmount))

\* the endorsement policy is not attached
PutTokensNoPolicy(ctx, id, newAmount) ==
    IF ~ClientExists(ctx, id) THEN Throw("NotFound", id)
    ELSE setEvent(putState(id, toString(newAmount)), "PutTokens", toString(newAmount))


PutTokens(ctx, id, newAmount) ==
    IF ~ClientExists(ctx, id) THEN Throw("NotFound", id)
    ELSE LET put == setEndorsingOrgs(ctx, putState(id, toString(newAmount)),
                                     {ctx.org})
         IN  IF put.err # "none" THEN put
             ELSE setEvent(put, "PutTokens", toString(newAmount))

\* the state of the key is not deleted
DeleteClientKeepsState(ctx, id) ==
    LET assetBytes == getState(ctx, id) IN
    IF Len(assetBytes) = 0 THEN Throw("NotFound", id)
    ELSE setEvent([deleteState(id) EXCEPT !.write = "none"], "DeleteClient", assetBytes)

DeleteClient(ctx, id) ==
    LET assetBytes == getState(ctx, id) IN
    IF Len(assetBytes) = 0 THEN Throw("NotFound", id)
    ELSE setEvent(deleteState(id), "DeleteClient", assetBytes)

\* the event of the delegated PutTokens is not replaced
ContributeResourceNoEvent(ctx, id, data) ==
    IF ~ClientExists(ctx, id) THEN Throw("NotFound", id)
    ELSE LET currentTokens == GetTokens(ctx, id)
             newAmount == currentTokens.ret + evaluateObfuscation(data)
             put == PutTokens(ctx, id, newAmount)
         IN  IF currentTokens.err # "none" THEN Throw(currentTokens.err, id)
             ELSE put

ContributeResource(ctx, id, data) ==
    IF ~ClientExists(ctx, id) THEN Throw("NotFound", id)
    ELSE LET currentTokens == GetTokens(ctx, id)
             newAmount == currentTokens.ret + evaluateObfuscation(data)
             put == PutTokens(ctx, id, newAmount)
         IN  IF currentTokens.err # "none" THEN Throw(currentTokens.err, id)
             ELSE IF put.err # "none" THEN put
             ELSE setEvent(put, "ContributeResource", toString(newAmount))

ConsumeResource(ctx, id, requiredLength) ==
    IF ~ClientExists(ctx, id) THEN Throw("NotFound", id)
    ELSE LET currentTokens == GetTokens(ctx, id)
             newAmount == currentTokens.ret - evaluateDeduction(requiredLength)
             put == PutTokens(ctx, id, newAmount)
         IN  IF currentTokens.err # "none" THEN Throw(currentTokens.err, id)
             ELSE IF newAmount < 0 THEN Throw("InsufficientBalance", id)
             ELSE IF put.err # "none" THEN put
             ELSE setEvent(put, "ConsumeResource", toString(newAmount))

\* ctx.stub.getStateByRange('', ''): the keys that hold a value, in key order
getStateByRange(ctx) == SelectSeq(KeyOrder, LAMBDA k : Len(getState(ctx, k)) > 0)

\* sortKeysRecursive(assets): every entry rebuilt with its keys in order (id,
\* tokens); the entries, which all compare equal as strings, keep their place
sortKeysRecursive(assets) ==
    [i \in 1..Len(assets) |-> [id |-> assets[i].id, tokens |-> assets[i].tokens]]

\* every key of the ledger is listed, with or without a value
GetAllTokensEveryKey(ctx) ==
    sortKeysRecursive([i \in 1..Len(KeyOrder) |->
        [id |-> KeyOrder[i], tokens |-> Number(getState(ctx, KeyOrder[i]))]])

\* GetAllTokens: the (id, tokens) pairs of the range query
GetAllTokens(ctx) ==
    LET result == getStateByRange(ctx)
    IN  sortKeysRecursive([i \in 1..Len(result) |->
            [id |-> result[i], tokens |-> Number(getState(ctx, result[i]))]])

\* number of parameters of each transaction function, after ctx
Arity(fn) ==
    CASE fn = "GetAllTokens" -> 0
      [] fn \in {"DeleteClient", "GetTokens", "ClientExists"} -> 1
      [] OTHER -> 2

\* a submitted transaction function applied to its string arguments
Invoke(ctx, fn, args) ==
    IF Len(args) # Arity(fn) THEN Throw("ArityMismatch", <<>>)
    ELSE CASE fn = "AddClient" -> AddClient(ctx, args[1], Number(args[2]))
           [] fn = "PutTokens" -> PutTokens(ctx, args[1], Number(args[2]))
           [] fn = "DeleteClient" -> DeleteClient(ctx, args[1])
           [] fn = "ContributeResource" -> ContributeResource(ctx, args[1], args[2])
           [] fn = "ConsumeResource" ->
                  ConsumeResource(ctx, args[1], Number(args[2]))

\* an evaluated (read-only) transaction function: [err, ret]
Query(ctx, fn, args) ==
    IF Len(args) # Arity(fn) THEN [err |-> "ArityMismatch", ret |-> <<>>]
    ELSE CASE fn = "GetTokens" ->
                  LET r == GetTokens(ctx, args[1])
                  IN  [err |-> r.err,
                       ret |-> IF r.err = "none" THEN toString(r.ret) ELSE <<>>]
           [] fn = "ClientExists" ->
                  [err |-> "none",
                   ret |-> IF ClientExists(ctx, args[1])
                           THEN <<"t", "r", "u", "e">>
                           ELSE <<"f", "a", "l", "s", "e">>]
           [] fn = "GetAllTokens" -> [err |-> "none", ret |-> GetAllTokens(ctx)]

-----------------------------------------------------------------------------
(* The ledger: world[k] is the committed value of key k, the height of the *)
(* transaction that last wrote it and its key-level endorsement policy.    *)

\* the version read is not compared
ValidateAlways(w, eff, readVer) == TRUE

\* the MVCC check of validation: the version read is still the current one
Validate(w, eff, readVer) == w[eff.key].ver = readVer

\* the commit gives every key that holds a value the new version
ApplyTouchesAll(w, eff, h) ==
    LET w1 == CASE eff.write = "put" ->
                       [w EXCEPT ![eff.key] =
                           [val |-> eff.val, ver |-> h,
                            policy |-> IF eff.setsPolicy THEN eff.policy
                                       ELSE @.policy]]
                [] eff.write = "del" -> [w EXCEPT ![eff.key] = Absent]
                [] OTHER -> w
    IN  [k \in DOMAIN w1 |->
            IF w1[k].val # <<>> THEN [w1[k] EXCEPT !.ver = h] ELSE w1[k]]

\* the write set of a valid transaction, applied as one unit
Apply(w, eff, h) ==
    CASE eff.write = "put" ->
             [w EXCEPT ![eff.key] =
                 [val |-> eff.val, ver |-> h,
                  policy |-> IF eff.setsPolicy THEN eff.policy ELSE @.policy]]
      [] eff.write = "del" -> [w EXCEPT ![eff.key] = Absent]
      [] OTHER -> w

-----------------------------------------------------------------------------
(* A client call.  attempts lists how each submission of the call ended;    *)
(* simHeight is the ledger height its last transaction was simulated at.   *)

Idle ==
    [via |-> "none", fn |-> "none", args |-> <<>>, wrapped |-> FALSE,
     pc |-> "idle", retryCount |-> 0, lastError |-> "undefined",
     outcome |-> "none", ret |-> <<>>, pending |-> FALSE,
     eff |-> Throw("none", <<>>), readVer |-> 0,
     attempts |-> <<>>, commits |-> 0, commitVer |-> 0,
     stale |-> <<>>, base |-> <<>>, simHeight |-> 0]

NewCall(via, fn, args, wrapped) ==
    [Idle EXCEPT !.via = via, !.fn = fn, !.args = args, !.wrapped = wrapped,
                 !.pc = "submitting"]
\* any CommitError is taken for a read conflict
IsCommitError(err) == err \in {"MVCC_READ_CONFLICT", "ENDORSEMENT_POLICY_FAILURE"}

\* err instanceof CommitError && err.code === StatusCode.MVCC_READ_CONFLICT
IsReadConflict(err) == err = "MVCC_READ_CONFLICT"

\* the value a finished attempt of the call returns
Return(call) == [call EXCEPT !.pc = "done", !.outcome = "success"]
\* the loop runs while retryCount <= RETRIES
submitWithRetryOffByOne(call, result) ==
    IF result = "committed" THEN Return(call)
    ELSE LET c1 == [call EXCEPT !.lastError = result] IN
         IF IsReadConflict(result) /\ call.retryCount + 1 <= RETRIES
         THEN [c1 EXCEPT !.retryCount = @ + 1, !.pc = "submitting"]
         ELSE [c1 EXCEPT !.retryCount = IF IsReadConflict(result) THEN @ + 1 ELSE @,
                         !.pc = "done", !.outcome = c1.lastError]

\* the result of submit() is not returned: the loop is left and lastError,
\* when there is one, is thrown
submitWithRetryThrowsLast(call, result) ==
    IF result = "committed"
    THEN IF call.lastError = "undefined" THEN Return(call)
         ELSE [call EXCEPT !.pc = "done", !.outcome = call.lastError]
    ELSE LET c1 == [call EXCEPT !.lastError = result] IN
         IF IsReadConflict(result) /\ call.retryCount + 1 < RETRIES
         THEN [c1 EXCEPT !.retryCount = @ + 1, !.pc = "submitting"]
         ELSE [c1 EXCEPT !.retryCount = IF IsReadConflict(result) THEN @ + 1 ELSE @,
                         !.pc = "done", !.outcome = c1.lastError]

\* submitWithRetry, one turn of its loop: the attempt ended with result
submitWithRetry(call, result) ==
    IF result = "committed" THEN Return(call)
    ELSE LET c1 == [call EXCEPT !.lastError = result] IN
         IF IsReadConflict(result) /\ call.retryCount + 1 < RETRIES
         THEN [c1 EXCEPT !.retryCount = @ + 1, !.pc = "submitting"]
         ELSE [c1 EXCEPT !.retryCount = IF IsReadConflict(result) THEN @ + 1 ELSE @,
                         !.pc = "done", !.outcome = c1.lastError]

\* await contract.submit(...) with no wrapper: the error is thrown (or, in
\* the application scripts, caught and logged)
submitOnce(call, result) ==
    IF result = "committed" THEN Return(call)
    ELSE [call EXCEPT !.pc = "done", !.outcome = result]

\* the client side of the end of one attempt
AttemptEnds(call, result) ==
    LET c1 == [call EXCEPT !.attempts = Append(@, result)]
    IN  IF call.wrapped THEN submitWithRetry(c1, result) ELSE submitOnce(c1, result)

-----------------------------------------------------------------------------
(* Initial state: an empty ledger and no call in progress.                 *)

Init ==
    /\ world = [k \in Keys |-> Absent]
    /\ calls = [c \in Clients |-> Idle]
    /\ height = 0
    /\ nCalls = 0

Ctx(c) == [w |-> world, org |-> OrgOf(c)]

CanStart(c) ==
    /\ calls[c].pc \in {"idle", "done"}
    /\ ~calls[c].pending
    /\ nCalls < MaxCalls

Begin(c, call) ==
    /\ CanStart(c)
    /\ calls' = [calls EXCEPT ![c] = call]
    /\ nCalls' = nCalls + 1
    /\ UNCHANGED <<world, height>>

\* the result bytes of an evaluation as the calling method decodes them
Decode(via, bytes) ==
    CASE via = "getTokens" -> Number(bytes)
      [] via = "clientExists" -> bytes = <<"t", "r", "u", "e">>
      [] OTHER -> bytes

\* contract.evaluate(fn, args), decoded by the caller
Evaluate(c, via, fn, args) ==
    LET r == Query(Ctx(c), fn, args)
        call == [NewCall(via, fn, args, FALSE) EXCEPT
                    !.pc = "done",
                    !.outcome = IF r.err = "none" THEN "success" ELSE r.err,
                    !.ret = IF r.err = "none" THEN <<Decode(via, r.ret)>> ELSE <<>>]
    IN  Begin(c, call)

-----------------------------------------------------------------------------
(* The methods of AssetTransfer, with the argument lists they pass.        *)

addClient(c, initAmount) ==
    Begin(c, NewCall("addClient", "AddClient", <<toString(initAmount)>>, FALSE))

getAllTokens(c) ==
    Evaluate(c, "getAllTokens", "GetAllTokens", <<>>)

getTokens(c) ==
    Evaluate(c, "getTokens", "GetTokens", <<>>)

putTokens(c, newAmount) ==
    Begin(c, NewCall("putTokens", "PutTokens", <<toString(newAmount)>>, TRUE))

deleteClient(c) ==
    Begin(c, NewCall("deleteClient", "DeleteClient", <<>>, TRUE))

clientExists(c) ==
    Evaluate(c, "clientExists", "ClientExists", <<>>)

contributeResource(c, data) ==
    Begin(c, NewCall("contributeResource", "ContributeResource", <<data>>, FALSE))

consumeResource(c, requiredLength) ==
    Begin(c, NewCall("consumeResource", "ConsumeResource",
                     <<toString(requiredLength)>>, FALSE))

-----------------------------------------------------------------------------
(* The application scripts, which run under the identity of org1MSP, pass  *)
(* the client key and log the error of a failed submission.                *)

mspId == "org1MSP"
\* the submission is wrapped in submitWithRetry
ContributeWithRetry(c, id, data) ==
    /\ OrgOf(c) = mspId
    /\ Begin(c, NewCall("Contribute", "ContributeResource", <<id, data>>, TRUE))


Contribute(c, id, data) ==
    /\ OrgOf(c) = mspId
    /\ Begin(c, NewCall("Contribute", "ContributeResource", <<id, data>>, FALSE))

Consume(c, id, requiredLength) ==
    /\ OrgOf(c) = mspId
    /\ Begin(c, NewCall("Consume", "ConsumeResource",
                        <<id, toString(requiredLength)>>, FALSE))

AppAddClient(c, id, amount) ==
    /\ OrgOf(c) = mspId
    /\ Begin(c, NewCall("AppAddClient", "AddClient", <<id, amount>>, FALSE))

AppDeleteClient(c, id) ==
    /\ OrgOf(c) = mspId
    /\ Begin(c, NewCall("AppDeleteClient", "DeleteClient", <<id>>, FALSE))

-----------------------------------------------------------------------------
(* Any other gateway identity may submit or evaluate a transaction         *)
(* function of the chaincode with the arguments the function declares.     *)

Proposals ==
    {<<"AddClient", <<k, toString(a)>>>> : k \in Keys, a \in Amounts}
    \cup {<<"PutTokens", <<k, toString(a)>>>> : k \in Keys, a \in Amounts}
    \cup {<<"DeleteClient", <<k>>>> : k \in Keys}
    \cup {<<"ContributeResource", <<k, MkData(n)>>>> : k \in Keys, n \in DataLengths}
    \cup {<<"ConsumeResource", <<k, toString(n)>>>> :
              k \in Keys, n \in RequiredLengths}

\* a transaction of another identity, from its simulation to its commit: it
\* commits on the world state it was simulated on
Transact(c, fn, args) ==
    LET call == NewCall("submit", fn, args, FALSE)
        eff == Invoke(Ctx(c), fn, args)
    IN  /\ CanStart(c)
        /\ nCalls' = nCalls + 1
        /\ IF eff.err # "none"
           THEN /\ calls' = [calls EXCEPT ![c] = AttemptEnds(call, eff.err)]
                /\ UNCHANGED <<world, height>>
           ELSE /\ world' = Apply(world, eff, height + 1)
                /\ height' = height + 1
                /\ calls' = [calls EXCEPT ![c] =
                       AttemptEnds([call EXCEPT
                                       !.eff = eff,
                                       !.readVer = world[eff.key].ver,
                                       !.simHeight = height,
                                       !.commits = 1,
                                       !.commitVer = height + 1,
                                       !.base = <<world[eff.key].val>>],
                                   "committed")]

Read(c, fn, id) == Evaluate(c, "evaluate", fn, <<id>>)

\* the context of a simulation in which setStateValidationParameter is
\* rejected
FaultCtx(c) == [w |-> world, org |-> OrgOf(c), policyFails |-> TRUE]

\* a transaction whose simulation reaches setEndorsingOrgs and has it
\* rejected: the transaction function throws and nothing is submitted
TransactFault(c, fn, args) ==
    LET call == NewCall("submit", fn, args, FALSE)
        eff == Invoke(FaultCtx(c), fn, args)
    IN  /\ CanStart(c)
        /\ eff.err = "PolicyError"
        /\ nCalls' = nCalls + 1
        /\ calls' = [calls EXCEPT ![c] = AttemptEnds(call, eff.err)]
        /\ UNCHANGED <<world, height>>

-----------------------------------------------------------------------------
(* One submission: endorsement simulates the transaction on the current    *)
(* world state; validation commits it or rejects it.                       *)

Endorse(c) ==
    LET call == calls[c]
        eff == Invoke(Ctx(c), call.fn, call.args)
    IN  /\ call.pc = "submitting"
        /\ calls' = [calls EXCEPT ![c] =
               IF eff.err # "none" THEN AttemptEnds(call, eff.err)
               ELSE [call EXCEPT !.pc = "endorsed", !.pending = TRUE,
                                 !.eff = eff, !.readVer = world[eff.key].ver,
                                 !.simHeight = height]]
        /\ UNCHANGED <<world, height, nCalls>>

\* the gateway cannot be reached, or the endorsement times out
TransportFails(c) ==
    /\ calls[c].pc = "submitting"
    /\ calls' = [calls EXCEPT ![c] = AttemptEnds(@, "TransportError")]
    /\ UNCHANGED <<world, height, nCalls>>

\* the commit status is not delivered: the transaction stays in flight
StatusLost(c) ==
    /\ calls[c].pc = "endorsed"
    /\ calls' = [calls EXCEPT ![c] = AttemptEnds(@, "TransportError")]
    /\ UNCHANGED <<world, height, nCalls>>

\* the client side of a validation result; a call that no longer waits for
\* the status only drops the transaction
Validated(call, result) ==
    IF call.pc = "endorsed" THEN AttemptEnds([call EXCEPT !.pending = FALSE], result)
    ELSE [call EXCEPT !.pending = FALSE]

CommitValid(c) ==
    LET call == calls[c] IN
    /\ call.pending
    /\ Validate(world, call.eff, call.readVer)
    /\ world' = Apply(world, call.eff, height + 1)
    /\ height' = height + 1
    /\ calls' = [calls EXCEPT ![c] =
           Validated([call EXCEPT !.commits = @ + 1, !.commitVer = height + 1,
                                  !.base = <<world[call.eff.key].val>>],
                     "committed")]
    /\ UNCHANGED nCalls

CommitConflict(c) ==
    LET call == calls[c] IN
    /\ call.pending
    /\ ~Validate(world, call.eff, call.readVer)
    /\ calls' = [calls EXCEPT ![c] =
           Validated([call EXCEPT !.stale = <<call.eff>>], "MVCC_READ_CONFLICT")]
    /\ UNCHANGED <<world, height, nCalls>>

\* validation rejects the transaction with another status code
CommitReject(c) ==
    /\ calls[c].pending
    /\ calls' = [calls EXCEPT ![c] = Validated(@, "ENDORSEMENT_POLICY_FAILURE")]
    /\ UNCHANGED <<world, height, nCalls>>

-----------------------------------------------------------------------------

\* the application of this repository runs as App; Other is any other
\* identity of the channel
App == "c1"
Other == "c2"

Next ==
    \/ \E a \in Amounts : addClient(App, a)
    \/ getAllTokens(App)
    \/ getTokens(App)
    \/ \E a \in Amounts : putTokens(App, a)
    \/ deleteClient(App)
    \/ clientExists(App)
    \/ \E n \in DataLengths : contributeResource(App, MkData(n))
    \/ \E n \in RequiredLengths : consumeResource(App, n)
    \/ \E k \in Keys, n \in DataLengths : Contribute(App, k, MkData(n))
    \/ \E k \in Keys, n \in RequiredLengths : Consume(App, k, n)
    \/ \E k \in Keys, a \in Amounts : AppAddClient(App, k, toString(a))
    \/ \E k \in Keys : AppDeleteClient(App, k)
    \/ \E p \in Proposals : Transact(Other, p[1], p[2])
    \/ \E k \in Keys, fn \in {"GetTokens", "ClientExists"} : Read(Other, fn, k)
    \/ Endorse(App)
    \/ TransportFails(App)
    \/ StatusLost(App)
    \/ CommitValid(App)
    \/ CommitConflict(App)
    \/ CommitReject(App)

Spec == Init /\ [][Next]_vars

\* the transaction functions alone, one transaction at a time
NextLedger ==
    \/ \E c \in Clients, p \in Proposals : Transact(c, p[1], p[2])
    \/ \E c \in Clients, k \in Keys, fn \in {"GetTokens", "ClientExists"} :
           Read(c, fn, k)

SpecLedger == Init /\ [][NextLedger]_vars

\* the transaction functions, one transaction at a time, where the policy
\* attachment of a simulation may be rejected
NextFault ==
    \/ NextLedger
    \/ \E c \in Clients, p \in Proposals : TransactFault(c, p[1], p[2])

SpecFault == Init /\ [][NextFault]_vars

\* submitWithRetry applied to a submit closure of any transaction
RetrySubmit(c, fn, args) == Begin(c, NewCall("submitWithRetry", fn, args, TRUE))

NextRetry ==
    \/ \E p \in Proposals : RetrySubmit(App, p[1], p[2])
    \/ \E a \in Amounts : putTokens(App, a)
    \/ deleteClient(App)
    \/ \E k \in Keys, n \in DataLengths : Contribute(App, k, MkData(n))
    \/ \E n \in RequiredLengths : consumeResource(App, n)
    \/ \E p \in Proposals : Transact(Other, p[1], p[2])
    \/ Endorse(App)
    \/ TransportFails(App)
    \/ StatusLost(App)
    \/ CommitValid(App)
    \/ CommitConflict(App)
    \/ CommitReject(App)

\* the ledger once Other has added the account of the first key
InitRetry ==
    LET k == KeyOrder[1]
        empty == [j \in Keys |-> Absent]
        eff == AddClient([w |-> empty, org |-> OrgOf(Other)], k, 5)
    IN  /\ world = Apply(empty, eff, 1)
        /\ calls = [c \in Clients |-> Idle]
        /\ height = 1
        /\ nCalls = 0

SpecRetry == InitRetry /\ [][NextRetry]_vars

\* transactions of several identities in flight together: each is simulated
\* on the world state of its endorsement and validated when it is ordered
Submit(c, fn, args) == Begin(c, NewCall("submit", fn, args, FALSE))

\* the transactions submitted together: contributions, consumptions,
\* deletions and additions
RaceProposals ==
    {p \in Proposals : /\ p[1] # "PutTokens"
                       /\ p[1] = "AddClient" => p[2][2] = toString(5)}

NextRace ==
    \/ \E c \in Clients, p \in RaceProposals : Submit(c, p[1], p[2])
    \/ \E c \in Clients : Endorse(c)
    \/ \E c \in Clients : CommitValid(c)
    \/ \E c \in Clients : CommitConflict(c)

\* the ledger once Other has added the account of the first key and App the
\* account of the second, with 5 tokens each
InitRace ==
    LET empty == [j \in Keys |-> Absent]
        w1 == Apply(empty, AddClient([w |-> empty, org |-> OrgOf(Other)],
                                     KeyOrder[1], 5), 1)
        w2 == Apply(w1, AddClient([w |-> w1, org |-> OrgOf(App)],
                                  KeyOrder[2], 5), 2)
    IN  /\ world = w2
        /\ calls = [c \in Clients |-> Idle]
        /\ height = 2
        /\ nCalls = 0

SpecRace == InitRace /\ [][NextRace]_vars

-----------------------------------------------------------------------------
(* Properties                                                              *)

\* the least integer q with 10 * q >= n
CeilOfTenth(n) == CHOOSE q \in -9..9 : 10 * q >= n /\ 10 * (q - 1) < n

Present(k) == world[k].val # <<>>

Balance(k) == Number(world[k].val)

\* the transaction fn(args) of org run alone on the world state w: the error
\* it ends with and the world state it leaves
Run(w, org, fn, args) ==
    LET eff == Invoke([w |-> w, org |-> org], fn, args)
    IN  [err |-> eff.err,
         w |-> IF eff.err = "none" THEN Apply(w, eff, height + 1) ELSE w]

\* C1: in every reachable ledger state each present account has a
\* balance >= 0
C1_BalanceNeverNegative == \A k \in Keys : Present(k) => Balance(k) >= 0

\* C2: ConsumeResource(id, n) on a present account with balance b succeeds
\* and leaves exactly b - ceil(n/10) when that is >= 0, and otherwise fails
\* with InsufficientBalance and leaves the balance b; a committed
\* ConsumeResource has deducted ceil(n/10) from the balance it was
\* committed on
C2_Ledger ==
    \A k \in Keys, n \in CheckedLengths :
          Present(k) =>
            LET b == Balance(k)
                cost == CeilOfTenth(n)
                r == Run(world, mspId, "ConsumeResource", <<k, toString(n)>>)
            IN  IF b - cost >= 0
                THEN r.err = "none" /\ Number(r.w[k].val) = b - cost
                ELSE r.err = "InsufficientBalance" /\ r.w = world

C2_Calls ==
    \A c \in Clients :
          LET call == calls[c] IN
          /\ call.fn = "ConsumeResource" /\ call.commits = 1 =>
                /\ Number(call.eff.val) =
                      Number(call.base[1]) - CeilOfTenth(Number(call.args[2]))
                /\ Number(call.eff.val) >= 0
          /\ call.outcome = "InsufficientBalance" => call.commits = 0

\* C2: ConsumeResource(id, n) on balance b leaves b - ceil(n/10) when that is
\* >= 0 and otherwise fails with InsufficientBalance leaving b, in every
\* ledger state and for every committed ConsumeResource
C2_ConsumeDeductsCeil ==
    C2_Ledger /\ C2_Calls

\* C2 witness: a consumption of 41 committed on balance 5 has left 0 while
\* a consumption of 51 was refused
C2_Witness ==
    \E c, d \in Clients :
        /\ calls[c].fn = "ConsumeResource" /\ calls[c].commits = 1
        /\ calls[c].args[2] = toString(41) /\ calls[c].base = <<toString(5)>>
        /\ world[calls[c].eff.key].val = toString(0)
        /\ calls[d].fn = "ConsumeResource" /\ calls[d].args = <<calls[c].args[1], toString(51)>>
        /\ calls[d].outcome = "InsufficientBalance"

\* C8: AddClient(id, a) on an absent key makes the account present with
\* balance a; a second AddClient on the same key fails with AlreadyExists and
\* the balance stays a; a committed AddClient was committed on an absent key
C8_Ledger ==
    \A k \in Keys, a \in Amounts :
          LET r == Run(world, mspId, "AddClient", <<k, toString(a)>>) IN
          IF Present(k) THEN r.err = "AlreadyExists" /\ r.w = world
          ELSE /\ r.err = "none"
               /\ r.w[k].val # <<>> /\ Number(r.w[k].val) = a
               /\ \A a2 \in Amounts :
                     LET r2 == Run(r.w, mspId, "AddClient", <<k, toString(a2)>>)
                     IN  r2.err = "AlreadyExists" /\ r2.w = r.w

C8_Calls ==
    \A c \in Clients :
          LET call == calls[c] IN
          /\ call.fn = "AddClient" /\ call.commits = 1 =>
                call.base = << <<>> >> /\ Number(call.eff.val) = Number(call.args[2])
          /\ call.outcome = "AlreadyExists" => call.commits = 0

\* C8: AddClient on an absent key sets the balance; on a present key it
\* fails with AlreadyExists and leaves the balance, in every ledger state
\* and for every AddClient call
C8_AddClientNotIdempotent ==
    C8_Ledger /\ C8_Calls

\* C8 witness: an AddClient with another amount was refused on a key that
\* an earlier AddClient has made present, and the balance is the earlier one
C8_Witness ==
    \E c, d \in Clients :
        /\ calls[c].fn = "AddClient" /\ calls[c].commits = 1
        /\ calls[d].fn = "AddClient" /\ calls[d].outcome = "AlreadyExists"
        /\ Len(calls[d].args) = 2 /\ calls[d].args[1] = calls[c].eff.key
        /\ calls[d].args[2] # calls[c].args[2]
        /\ world[calls[c].eff.key].val = calls[c].args[2]

\* values written and read back in C9
RoundTripValues == {0, 7, 10, 105}

\* C9: for every present account and every non-negative integer v,
\* PutTokens(id, v) followed immediately by GetTokens(id) returns v
C9_Ledger ==
    \A k \in Keys, v \in RoundTripValues :
          Present(k) =>
            LET r == Run(world, mspId, "PutTokens", <<k, toString(v)>>)
                q == Query([w |-> r.w, org |-> mspId], "GetTokens", <<k>>)
            IN  r.err = "none" /\ q.err = "none" /\ Number(q.ret) = v

C9_Calls ==
    \A c \in Clients :
          LET call == calls[c] IN
          (/\ call.fn = "PutTokens" /\ call.commits = 1
           /\ world[call.eff.key].ver = call.commitVer) =>
              LET q == Query(Ctx(c), "GetTokens", <<call.eff.key>>)
              IN  q.err = "none" /\ Number(q.ret) = Number(call.args[2])

\* C9: GetTokens right after a committed PutTokens(id, v) returns v, in
\* every ledger state and for every committed PutTokens
C9_PutGetRoundTrip ==
    C9_Ledger /\ C9_Calls

\* C9 witness: a committed PutTokens(id, 5) is the last write of its key
C9_Witness ==
    \E c \in Clients :
        /\ calls[c].fn = "PutTokens" /\ calls[c].commits = 1
        /\ calls[c].args[2] = toString(5)
        /\ world[calls[c].eff.key].ver = calls[c].commitVer
        /\ Balance(calls[c].eff.key) = 5

\* C10: ContributeResource(id, data) on a present account with balance b
\* succeeds and leaves exactly b + ceil(len(data)/10), also for empty data
C10_Ledger ==
    \A k \in Keys, n \in {m \in CheckedLengths : m >= 0} :
          Present(k) =>
            LET r == Run(world, mspId, "ContributeResource", <<k, MkData(n)>>)
            IN  r.err = "none" /\ Number(r.w[k].val) = Balance(k) + CeilOfTenth(n)

C10_Calls ==
    \A c \in Clients :
          LET call == calls[c] IN
          call.fn = "ContributeResource" /\ call.commits = 1 =>
              Number(call.eff.val) =
                  Number(call.base[1]) + CeilOfTenth(Len(call.args[2]))

\* C10: ContributeResource(id, data) on balance b leaves b + ceil(len/10),
\* in every ledger state and for every committed ContributeResource
C10_ContributeAddsCeil ==
    C10_Ledger /\ C10_Calls

\* C10 witness: a contribution of 23 characters committed on balance 5 has
\* left 8
C10_Witness ==
    \E c \in Clients :
        /\ calls[c].fn = "ContributeResource" /\ calls[c].commits = 1
        /\ Len(calls[c].args[2]) = 23 /\ calls[c].base = <<toString(5)>>
        /\ world[calls[c].eff.key].val = toString(8)

-----------------------------------------------------------------------------
(* The retry protocol                                                      *)

Conflict == "MVCC_READ_CONFLICT"

Last(seq) == seq[Len(seq)]

AllConflicts(call) ==
    call.attempts # <<>> /\ \A i \in 1..Len(call.attempts) : call.attempts[i] = Conflict

\* the result of the call's transaction run on the value its key held when
\* the transaction was committed
OnBase(c) ==
    LET call == calls[c]
        w == (call.eff.key :> [val |-> call.base[1], ver |-> 0, policy |-> {}])
    IN  Invoke([w |-> w, org |-> OrgOf(c)], call.fn, call.args)

\* the key still holds what the call's committed transaction wrote
HoldsWrite(c) ==
    LET call == calls[c]
        k == call.eff.key
    IN  IF call.eff.write = "del" THEN world[k] = Absent
        ELSE world[k].val = call.eff.val /\ world[k].policy = {OrgOf(c)}

\* C3: a call made through submitWithRetry whose first attempt gets an MVCC
\* read conflict and whose second attempt commits returns success, and what
\* it committed is the transaction evaluated on the value current at the
\* second attempt
C3_RetryCommitsFreshResult ==
    \A c \in Clients :
        LET call == calls[c] IN
        (call.wrapped /\ call.attempts = <<Conflict, "committed">>) =>
            /\ call.pc = "done" /\ call.outcome = "success"
            /\ call.commits = 1
            /\ call.eff = OnBase(c)
            /\ world[call.eff.key].ver = call.commitVer => HoldsWrite(c)

\* C3 witness: the retried attempt has committed a value other than the one
\* the conflicting first attempt had computed
C3_Witness ==
    \E c \in Clients :
        /\ calls[c].wrapped /\ calls[c].attempts = <<Conflict, "committed">>
        /\ calls[c].outcome = "success"
        /\ calls[c].stale # <<>> /\ calls[c].stale[1].val # calls[c].eff.val
        /\ world[calls[c].eff.key].val = calls[c].eff.val

\* C4: when every attempt of a call made through submitWithRetry ends in an
\* MVCC read conflict the transaction is submitted exactly 2 times, the call
\* fails with the conflict and has committed nothing
C4_ConflictOnEveryAttempt ==
    \A c \in Clients :
        LET call == calls[c] IN
        (call.wrapped /\ AllConflicts(call)) =>
            /\ Len(call.attempts) <= 2
            /\ Len(call.attempts) < 2 => call.pc # "done"
            /\ Len(call.attempts) = 2 =>
                  /\ call.pc = "done" /\ call.outcome = Conflict
                  /\ call.commits = 0 /\ ~call.pending

\* C4 witness: a call has ended after two conflicting attempts
C4_Witness ==
    \E c \in Clients :
        /\ calls[c].wrapped /\ calls[c].attempts = <<Conflict, Conflict>>
        /\ calls[c].pc = "done" /\ calls[c].outcome = Conflict

\* C5: submitWithRetry re-submits only after an MVCC read conflict; any other
\* failure ends the call, and the error thrown is the error of the last
\* attempt
C5_OnlyReadConflictRetried ==
    \A c \in Clients :
        LET call == calls[c] IN
        call.wrapped =>
            /\ \A i \in 1..(Len(call.attempts) - 1) : call.attempts[i] = Conflict
            /\ (call.attempts # <<>> /\ Last(call.attempts) \notin {Conflict, "committed"}) =>
                  call.pc = "done"
            /\ (call.pc = "done" /\ call.outcome # "success") =>
                  /\ call.outcome = Last(call.attempts)
                  /\ call.lastError = Last(call.attempts)

\* C5 witness: after a conflict the second attempt was rejected with another
\* commit status, which ended the call as its error
C5_Witness ==
    \E c \in Clients :
        /\ calls[c].wrapped /\ calls[c].pc = "done"
        /\ calls[c].attempts = <<Conflict, "ENDORSEMENT_POLICY_FAILURE">>
        /\ calls[c].outcome = "ENDORSEMENT_POLICY_FAILURE"

ContributeConsumeVia == {"contributeResource", "consumeResource", "Contribute", "Consume"}

\* C6 as claimed: a contribute or consume call whose first attempt gets an
\* MVCC read conflict is submitted a second time
C6_ContributeConsumeRetried ==
    \A c \in Clients :
        LET call == calls[c] IN
        (call.via \in ContributeConsumeVia /\ call.attempts # <<>>
         /\ call.attempts[1] = Conflict) =>
            (call.pc # "done" \/ Len(call.attempts) >= 2)

\* C6 as amended: only putTokens and deleteClient go through submitWithRetry;
\* a contribute or consume call is submitted once, and a read conflict of
\* that submission ends the call as its error
C6_OnlyPutAndDeleteRetried ==
    \A c \in Clients :
        LET call == calls[c] IN
        /\ call.pc # "idle" =>
              (call.wrapped <=> call.via \in {"putTokens", "deleteClient"})
        /\ call.via \in ContributeConsumeVia =>
              /\ Len(call.attempts) <= 1
              /\ call.attempts = <<Conflict>> =>
                    call.pc = "done" /\ call.outcome = Conflict

\* C6 witness: a contribution has ended with the read conflict of its only
\* submission
C6_Witness ==
    \E c \in Clients :
        /\ calls[c].via \in ContributeConsumeVia
        /\ calls[c].attempts = <<Conflict>>
        /\ calls[c].pc = "done" /\ calls[c].outcome = Conflict

\* C7: a call ends with one outcome after at most 2 submissions and commits
\* at most one transaction; a transaction is committed whole (the value
\* together with the policy) or not at all
C7_OneOutcomeOneTransaction ==
    /\ \A c \in Clients :
          LET call == calls[c]
              bound == IF call.wrapped THEN 2 ELSE 1
          IN
          /\ (call.pc = "done") <=> (call.outcome # "none")
          /\ Len(call.attempts) <= bound
          /\ call.pc \in {"submitting", "endorsed"} => Len(call.attempts) < bound
          /\ call.commits <= 1
          /\ (call.outcome = "success" /\ call.attempts # <<>>) =>
                Last(call.attempts) = "committed" /\ call.commits = 1
          /\ call.outcome \notin {"none", "success"} =>
                call.outcome = Last(call.attempts)
          /\ call.outcome \notin {"none", "success", "TransportError"} =>
                call.commits = 0
          /\ (call.commits = 1 /\ world[call.eff.key].ver = call.commitVer) =>
                HoldsWrite(c)
    /\ \A k \in Keys :
          IF Present(k) THEN world[k].ver > 0 /\ Cardinality(world[k].policy) = 1
          ELSE world[k] = Absent

\* C7 witness: a call has reported a transport error and its transaction
\* was committed whole
C7_Witness ==
    \E c \in Clients :
        /\ calls[c].pc = "done" /\ calls[c].outcome = "TransportError"
        /\ calls[c].commits = 1 /\ calls[c].eff.write = "put"
        /\ world[calls[c].eff.key].ver = calls[c].commitVer
        /\ world[calls[c].eff.key].val = calls[c].eff.val
        /\ world[calls[c].eff.key].policy = {OrgOf(c)}

-----------------------------------------------------------------------------
(* Account lifecycle and failures                                          *)

\* the decoded result of the evaluation fn(id) of org on the world state w
Ask(w, org, fn, id) ==
    LET q == Query([w |-> w, org |-> org], fn, <<id>>)
    IN  [err |-> q.err,
         ret |-> IF q.err = "none"
                 THEN Decode(IF fn = "GetTokens" THEN "getTokens" ELSE "clientExists",
                             q.ret)
                 ELSE 0]

\* amounts an account is re-created with in C11
ReAddValues == Amounts \cup {0, 105}

C11_Ledger ==
    \A k \in Keys :
        Present(k) =>
            LET d == Run(world, mspId, "DeleteClient", <<k>>)
                e == Ask(d.w, mspId, "ClientExists", k)
            IN  /\ d.err = "none"
                /\ e.err = "none" /\ e.ret = FALSE
                /\ \A v \in ReAddValues, org \in Orgs :
                      LET a == Run(d.w, org, "AddClient", <<k, toString(v)>>)
                          g == Ask(a.w, org, "GetTokens", k)
                      IN  a.err = "none" /\ g.err = "none" /\ g.ret = v

C11_Calls ==
    \A c \in Clients :
        LET call == calls[c] IN
        /\ (call.fn = "DeleteClient" /\ call.commits = 1) =>
              /\ call.base[1] # <<>> /\ call.eff.write = "del"
              /\ call.commitVer = height =>
                    Ask(world, OrgOf(c), "ClientExists", call.eff.key).ret = FALSE
        /\ (call.fn = "AddClient" /\ call.commits = 1
            /\ world[call.eff.key].ver = call.commitVer) =>
              Ask(world, OrgOf(c), "GetTokens", call.eff.key)
                  = [err |-> "none", ret |-> Number(call.args[2])]

\* C11: DeleteClient(id) on a present account succeeds and ClientExists(id)
\* is then false; a following AddClient(id, v) succeeds and GetTokens(id)
\* returns v, whatever the balance before the delete was
C11_DeleteThenReAdd ==
    C11_Ledger /\ C11_Calls

\* C11 witness: an account deleted with one balance has been added again
\* with another amount, which is its balance now
C11_Witness ==
    \E c, d \in Clients :
        /\ calls[c].fn = "DeleteClient" /\ calls[c].commits = 1
        /\ calls[d].fn = "AddClient" /\ calls[d].commits = 1
        /\ calls[d].eff.key = calls[c].eff.key
        /\ calls[d].commitVer > calls[c].commitVer
        /\ calls[d].args[2] # calls[c].base[1]
        /\ world[calls[d].eff.key].val = calls[d].args[2]

\* the world state once the staged effect eff is committed, if it can be
After(eff) == IF eff.err = "none" THEN Apply(world, eff, height + 1) ELSE world

\* the transactions that update or delete the account of key k
UpdatesOf(k) ==
    {p \in Proposals : p[1] # "AddClient" /\ p[2][1] = k}
    \cup {<<"ConsumeResource", <<k, toString(n)>>>> : n \in CheckedLengths}
    \cup {<<"PutTokens", <<k, toString(v)>>>> : v \in RoundTripValues}

MutatingFns ==
    {"AddClient", "PutTokens", "DeleteClient", "ContributeResource", "ConsumeResource"}

C12_Ledger ==
    \A k \in Keys :
        ~Present(k) =>
            /\ Query(Ctx(App), "GetTokens", <<k>>).err = "NotFound"
            /\ \A p \in UpdatesOf(k) :
                  LET eff == Invoke(Ctx(App), p[1], p[2])
                      w2 == After(eff)
                  IN  /\ eff.err = "NotFound"
                      /\ eff.write = "none" /\ ~eff.setsPolicy /\ eff.event = <<>>
                      /\ w2 = world /\ w2[k] = Absent

C12_Calls ==
    \A c \in Clients :
        LET call == calls[c] IN
        call.outcome = "NotFound" =>
            /\ call.fn \in (MutatingFns \ {"AddClient"}) \cup {"GetTokens"}
            /\ call.commits = 0 /\ ~call.pending
            /\ call.eff.write = "none" /\ call.eff.event = <<>>

\* C12: GetTokens, PutTokens, DeleteClient, ContributeResource and
\* ConsumeResource on an absent key fail with NotFound and stage nothing:
\* the key stays absent, without a policy, and no event is set
C12_AbsentKeyNotFound ==
    C12_Ledger /\ C12_Calls

\* C12 witness: a contribution to an account that had been deleted ended
\* with NotFound and the key is absent
C12_Witness ==
    \E c, d \in Clients :
        /\ calls[d].fn = "DeleteClient" /\ calls[d].commits = 1
        /\ calls[c].fn = "ContributeResource" /\ calls[c].outcome = "NotFound"
        /\ calls[c].args[1] = calls[d].eff.key
        /\ world[calls[d].eff.key] = Absent

-----------------------------------------------------------------------------
(* Endorsement policy and events                                           *)

\* the successful transaction fn of org attaches the policy of org to its key
AttachesPolicy(eff, org) == eff.setsPolicy /\ eff.policy = {org}

\* every successful transaction among fns, in this ledger state and among
\* the committed calls, has attached the policy of its invoker
PolicyAttachedBy(fns) ==
    /\ \A p \in Proposals, org \in Orgs :
          LET eff == Invoke([w |-> world, org |-> org], p[1], p[2]) IN
          (p[1] \in fns /\ eff.err = "none") => AttachesPolicy(eff, org)
    /\ \A c \in Clients :
          (calls[c].fn \in fns /\ calls[c].commits = 1) =>
              AttachesPolicy(calls[c].eff, OrgOf(c))

\* C13 as claimed: every successful AddClient, PutTokens, DeleteClient,
\* ContributeResource and ConsumeResource attaches, in its transaction, the
\* endorsement policy of its key to the organisation of the invoker
C13_EveryMutationAttachesPolicy == PolicyAttachedBy(MutatingFns)

\* C13 as amended: every successful AddClient, PutTokens, ContributeResource
\* and ConsumeResource attaches the policy of its key to the organisation of
\* the invoker, in the transaction that writes the balance; a successful
\* DeleteClient attaches no policy and leaves the key without value and
\* policy
C13_BalanceWritesAttachPolicy ==
    /\ \A p \in Proposals, org \in Orgs :
          LET eff == Invoke([w |-> world, org |-> org], p[1], p[2])
              w2 == After(eff)
              k == p[2][1]
          IN  eff.err = "none" =>
                IF p[1] = "DeleteClient"
                THEN ~eff.setsPolicy /\ w2[k] = Absent
                ELSE /\ AttachesPolicy(eff, org)
                     /\ w2[k].val # <<>> /\ w2[k].policy = {org}
    /\ \A c \in Clients :
          (calls[c].fn \in MutatingFns \ {"DeleteClient"} /\ calls[c].commits = 1) =>
              AttachesPolicy(calls[c].eff, OrgOf(c))
    /\ \A c \in Clients :
          LET call == calls[c] IN
          /\ (call.fn = "DeleteClient" /\ call.commits = 1) =>
                ~call.eff.setsPolicy /\ call.eff.write = "del"
          /\ (call.commits = 1 /\ world[call.eff.key].ver = call.commitVer) =>
                world[call.eff.key].policy = {OrgOf(c)}

\* C13 witness: the PutTokens of an organisation has attached its policy
\* to the key, and the DeleteClient that followed has attached none and
\* left the key absent
C13_Witness ==
    \E c, d \in Clients :
        /\ calls[c].fn = "PutTokens" /\ calls[c].commits = 1
        /\ AttachesPolicy(calls[c].eff, OrgOf(c))
        /\ calls[d].fn = "DeleteClient" /\ calls[d].commits = 1
        /\ calls[d].eff.key = calls[c].eff.key
        /\ calls[d].commitVer > calls[c].commitVer
        /\ ~calls[d].eff.setsPolicy
        /\ world[calls[d].eff.key] = Absent

\* the event of a successful transaction fn is named fn and carries payload
EventIs(eff, fn, payload) == eff.event = <<fn, payload>>

\* C14 as claimed: each successful mutating transaction sets one event,
\* named after the invoked operation, whose payload is the value the key
\* holds as the result of the transaction
C14_EventCarriesResultingValue ==
    /\ \A p \in Proposals :
          LET eff == Invoke(Ctx(App), p[1], p[2])
          IN  eff.err = "none" => EventIs(eff, p[1], After(eff)[p[2][1]].val)
    /\ \A c \in Clients :
          LET call == calls[c] IN
          call.commits = 1 =>
              EventIs(call.eff, call.fn,
                      IF call.eff.write = "del" THEN <<>> ELSE call.eff.val)

\* C14 as amended: each successful mutating transaction sets one event,
\* named after the invoked operation (ContributeResource and
\* ConsumeResource replace the event of the PutTokens they call); its
\* payload is the balance written, and for DeleteClient the balance the
\* account held before it was deleted
C14_EventPerOperation ==
    /\ \A p \in Proposals :
          LET eff == Invoke(Ctx(App), p[1], p[2])
              k == p[2][1]
          IN  IF eff.err = "none"
              THEN EventIs(eff, p[1],
                           IF p[1] = "DeleteClient" THEN world[k].val
                           ELSE After(eff)[k].val)
              ELSE eff.event = <<>>
    /\ \A c \in Clients :
          LET call == calls[c] IN
          /\ call.commits = 1 =>
                EventIs(call.eff, call.fn,
                        IF call.fn = "DeleteClient" THEN call.base[1]
                        ELSE call.eff.val)
          /\ call.commits = 0 /\ call.pc = "done" => call.eff.event = <<>>

\* C14 witness: a committed ContributeResource has set the event
\* ContributeResource with the new balance 8, and the DeleteClient that
\* followed has set the event DeleteClient with the deleted balance 8
C14_Witness ==
    \E c, d \in Clients :
        /\ calls[c].fn = "ContributeResource" /\ calls[c].commits = 1
        /\ EventIs(calls[c].eff, "ContributeResource", toString(8))
        /\ calls[d].fn = "DeleteClient" /\ calls[d].commits = 1
        /\ calls[d].eff.key = calls[c].eff.key
        /\ calls[d].commitVer > calls[c].commitVer
        /\ EventIs(calls[d].eff, "DeleteClient", toString(8))
        /\ world[calls[d].eff.key] = Absent

-----------------------------------------------------------------------------
(* The listing                                                             *)

\* the position of key k in the key order
KeyIndex(k) == CHOOSE i \in 1..Len(KeyOrder) : KeyOrder[i] = k

\* list holds exactly the present accounts of w, each once, with its
\* balance, in ascending key order
ListsPresent(list, w) ==
    /\ \A i \in 1..Len(list) :
          /\ list[i].id \in Keys /\ w[list[i].id].val # <<>>
          /\ list[i].tokens = Number(w[list[i].id].val)
    /\ \A i, j \in 1..Len(list) :
          i < j => KeyIndex(list[i].id) < KeyIndex(list[j].id)
    /\ \A k \in Keys :
          w[k].val # <<>> => \E i \in 1..Len(list) : list[i].id = k

\* C15: in every ledger state that committed operations reach, GetAllTokens
\* returns exactly the present accounts, each once with its current
\* balance, ordered by key, and nothing for a deleted account; the
\* getAllTokens method returns that list
C15_GetAllTokensListsPresent ==
    /\ ListsPresent(GetAllTokens(Ctx(App)), world)
    /\ Query(Ctx(App), "GetAllTokens", <<>>) =
          [err |-> "none", ret |-> GetAllTokens(Ctx(App))]
    /\ \A k \in Keys :
          LET r == Run(world, mspId, "DeleteClient", <<k>>) IN
          r.err = "none" =>
              /\ ListsPresent(GetAllTokens([w |-> r.w, org |-> mspId]), r.w)
              /\ \A i \in 1..Len(GetAllTokens([w |-> r.w, org |-> mspId])) :
                    GetAllTokens([w |-> r.w, org |-> mspId])[i].id # k
    /\ \A c \in Clients :
          LET call == calls[c] IN
          (call.via = "getAllTokens" /\ call.pc = "done") =>
              /\ call.outcome = "success"
              /\ \A i, j \in 1..Len(call.ret[1]) :
                    i < j => KeyIndex(call.ret[1][i].id) < KeyIndex(call.ret[1][j].id)

\* C15 witness: getAllTokens has returned both accounts, the first key
\* first although its account was added last
C15_Witness ==
    /\ calls[App].via = "getAllTokens" /\ calls[App].outcome = "success"
    /\ Len(calls[App].ret[1]) = 2
    /\ calls[App].ret[1] = GetAllTokens(Ctx(App))
    /\ ListsPresent(calls[App].ret[1], world)
    /\ world[KeyOrder[2]].ver < world[KeyOrder[1]].ver

-----------------------------------------------------------------------------
(* Transactions in flight together                                         *)

ResourceFns == {"ContributeResource", "ConsumeResource"}

\* the call's transaction was endorsed as a ContributeResource or
\* ConsumeResource that writes a balance
ResourceTx(call) == call.fn \in ResourceFns /\ call.eff.write = "put"

\* what the transaction of the call adds to the balance
Delta(call) ==
    IF call.fn = "ContributeResource" THEN CeilOfTenth(Len(call.args[2]))
    ELSE 0 - CeilOfTenth(Number(call.args[2]))

\* both transactions were simulated on the same version of the same key
SameRead(x, y) == x.eff.key = y.eff.key /\ x.readVer = y.readVer

\* C16: of the ContributeResource / ConsumeResource transactions simulated
\* on the same version of a key at most one commits and the others end
\* with a read conflict; the committed balance is the balance the
\* transaction replaced plus or minus its own cost, so no update is lost,
\* and a committed consumption never leaves less than zero
C16_OneCommitPerVersion ==
    /\ \A c, d \in Clients :
          LET x == calls[c]
              y == calls[d]
          IN  (c # d /\ ResourceTx(x) /\ ResourceTx(y) /\ x.commits = 1) =>
                /\ SameRead(x, y) =>
                      /\ y.commits = 0
                      /\ y.pc = "done" => y.outcome = Conflict
                /\ (y.commits = 1 /\ x.eff.key = y.eff.key
                     /\ y.readVer = x.commitVer) =>
                      Number(y.eff.val) = Number(x.base[1]) + Delta(x) + Delta(y)
    /\ \A c \in Clients :
          LET x == calls[c] IN
          (ResourceTx(x) /\ x.commits = 1) =>
              /\ x.eff = OnBase(c)
              /\ Number(x.eff.val) = Number(x.base[1]) + Delta(x)
              /\ x.fn = "ConsumeResource" => Number(x.eff.val) >= 0
              /\ world[x.eff.key].ver = x.commitVer =>
                    Balance(x.eff.key) = Number(x.base[1]) + Delta(x)

\* C16 witness: two consumptions of 41 were simulated on the balance 5,
\* each leaving 0; one has committed, the other has ended with the read
\* conflict, and the balance is 0
C16_Witness ==
    \E c, d \in Clients :
        /\ c # d
        /\ calls[c].fn = "ConsumeResource" /\ calls[d].fn = "ConsumeResource"
        /\ calls[c].args[2] = toString(41) /\ calls[d].args[2] = toString(41)
        /\ SameRead(calls[c], calls[d])
        /\ calls[c].commits = 1 /\ calls[c].base = <<toString(5)>>
        /\ calls[d].pc = "done" /\ calls[d].outcome = Conflict
        /\ calls[d].stale # <<>> /\ calls[d].stale[1].val = toString(0)
        /\ Balance(calls[c].eff.key) = 0

\* the world state w with every key other than k emptied
Only(w, k) == [j \in Keys |-> IF j = k THEN w[j] ELSE Absent]

\* the call's transaction was endorsed and writes or deletes its key
Endorsed(call) == call.eff.write # "none"

C17_Frame ==
    \A p \in Proposals :
        LET k == p[2][1]
            eff == Invoke([w |-> world, org |-> mspId], p[1], p[2])
            w2 == Apply(world, eff, height + 1)
        IN  /\ eff.key = k
            /\ eff = Invoke([w |-> Only(world, k), org |-> mspId], p[1], p[2])
            /\ \A k2 \in Keys \ {k} : w2[k2] = world[k2]

C17_Calls ==
    /\ \A d \in Clients :
          LET y == calls[d]
              k == y.eff.key
          IN  (Endorsed(y) /\ y.outcome = Conflict) =>
                  (world[k].ver > y.simHeight \/ ~Present(k))
    /\ \A c, d \in Clients :
          LET x == calls[c]
              y == calls[d]
          IN  (/\ c # d /\ Endorsed(x) /\ Endorsed(y)
               /\ x.eff.key # y.eff.key
               /\ x.commits = 1 /\ x.commitVer = height
               /\ y.simHeight = height - 1) =>
                  /\ y.pending /\ y.pc = "endorsed"
                  /\ world[y.eff.key].ver = y.readVer

\* C17: a transaction on key id stages a write of that key only, decides
\* it from the state of that key only and leaves the value, version and
\* policy of every other key as they were; a transaction in flight is not
\* invalidated by the commit of a transaction on another key, and a read
\* conflict means its own key was written after it was simulated
C17_KeysIndependent ==
    C17_Frame /\ C17_Calls

\* C17 witness: two transactions on different keys, each simulated before
\* the other was committed, have both committed
C17_Witness ==
    \E c, d \in Clients :
        /\ c # d
        /\ calls[c].commits = 1 /\ calls[d].commits = 1
        /\ calls[c].eff.key # calls[d].eff.key
        /\ calls[c].simHeight < calls[d].commitVer
        /\ calls[d].simHeight < calls[c].commitVer
        /\ calls[c].fn = "ContributeResource" /\ calls[d].fn = "ConsumeResource"

-----------------------------------------------------------------------------
(* A rejected policy attachment                                            *)

C18_Ledger ==
    \A p \in Proposals, c \in Clients :
        LET ok == Invoke(Ctx(c), p[1], p[2])
            bad == Invoke(FaultCtx(c), p[1], p[2])
        IN  IF p[1] # "DeleteClient" /\ ok.err = "none"
            THEN /\ bad.err = "PolicyError"
                 /\ bad.write = "none" /\ ~bad.setsPolicy /\ bad.event = <<>>
                 /\ Apply(world, bad, height + 1) = world
            ELSE bad = ok

C18_Calls ==
    \A c \in Clients :
        LET call == calls[c] IN
        call.outcome = "PolicyError" =>
            /\ call.fn \in MutatingFns \ {"DeleteClient"}
            /\ call.attempts = <<"PolicyError">>
            /\ call.commits = 0 /\ ~call.pending
            /\ call.eff.write = "none" /\ call.eff.event = <<>>

\* C18: when the attachment of the endorsement policy is rejected inside
\* AddClient or PutTokens, also when ContributeResource or ConsumeResource
\* called PutTokens, the transaction function fails: it stages no write, no
\* policy and no event, nothing is committed and the call ends with the
\* error
C18_PolicyFailureFailsOperation ==
    C18_Ledger /\ C18_Calls

\* C18 witness: a contribution whose policy attachment was rejected has
\* ended with the error, and the account is as the AddClient of the other
\* identity left it
C18_Witness ==
    \E c, d \in Clients :
        /\ c # d
        /\ calls[c].fn = "ContributeResource" /\ Len(calls[c].args[2]) = 23
        /\ calls[c].outcome = "PolicyError"
        /\ calls[d].fn = "AddClient" /\ calls[d].commits = 1
        /\ calls[c].args[1] = calls[d].eff.key
        /\ world[calls[d].eff.key] =
              [val |-> calls[d].args[2], ver |-> calls[d].commitVer,
               policy |-> {OrgOf(d)}]

-----------------------------------------------------------------------------
(* The policy of an account                                                *)

\* the committed transaction of the call is the last write of its key
LastWriter(c) ==
    /\ calls[c].commits = 1 /\ calls[c].eff.write = "put"
    /\ world[calls[c].eff.key].ver = calls[c].commitVer

\* C19: in every reachable ledger state a present account has a policy of
\* exactly one organisation, an absent key has none, and the policy of an
\* account is the organisation of the identity whose committed transaction
\* wrote its balance last
C19_PolicyOfLastWriter ==
    /\ \A k \in Keys :
          IF Present(k)
          THEN world[k].ver > 0 /\ \E org \in Orgs : world[k].policy = {org}
          ELSE world[k] = Absent
    /\ \A c \in Clients :
          LastWriter(c) =>
              /\ Present(calls[c].eff.key)
              /\ world[calls[c].eff.key].policy = {OrgOf(c)}
    /\ \A c, d \in Clients :
          (LastWriter(c) /\ LastWriter(d) /\ calls[c].eff.key = calls[d].eff.key) =>
              c = d

\* C19 witness: the account of the first key, added by the organisation of
\* Other, was deleted and added again by an identity of another
\* organisation, whose policy it carries now
C19_Witness ==
    \E c, d \in Clients :
        /\ calls[d].fn = "DeleteClient" /\ calls[d].commits = 1
        /\ calls[d].eff.key = KeyOrder[1]
        /\ calls[c].fn = "AddClient" /\ calls[c].eff.key = KeyOrder[1]
        /\ calls[c].commitVer > calls[d].commitVer
        /\ LastWriter(c)
        /\ OrgOf(c) # OrgOf(Other)
        /\ world[KeyOrder[1]].policy = {OrgOf(c)}

-----------------------------------------------------------------------------
(* The argument lists of the client methods                                *)

\* the methods of AssetTransfer whose transaction function takes the client
\* key
KeyedMethods ==
    {"addClient", "getTokens", "putTokens", "deleteClient", "clientExists",
     "contributeResource", "consumeResource"}

\* C20: every call of addClient, getTokens, putTokens, deleteClient,
\* clientExists, contributeResource or consumeResource passes its
\* transaction function as many arguments as the function takes, the
\* client key first, and so is not refused for its argument list
C20_MethodsPassClientKey ==
    \A c \in Clients :
        LET call == calls[c] IN
        call.via \in KeyedMethods =>
            /\ Len(call.args) = Arity(call.fn)
            /\ call.args[1] \in Keys
            /\ call.outcome # "ArityMismatch"

====
